---- MODULE Spec2Model ----
(***************************************************************************)
(* Heading tree / text buffer synchronisation of the NotionT editor.       *)
(*                                                                         *)
(* A text buffer is a sequence of one-character strings.  The heading      *)
(* parser (src/src/utils/markdownParser.ts) turns it into a tree, the      *)
(* editor (src/src/components/Editor.tsx) rewrites the buffer for the      *)
(* structural edits of the mind map (handleNodeAdd, handleNodeDelete), and *)
(* the graph (src/src/components/MindmapGraph.tsx) drives those through    *)
(* its context menu and dialog.                                            *)
(***************************************************************************)
EXTENDS Integers, Sequences, FiniteSets, TLC

VARIABLES content, title, headingTree, contextMenu, modal, inputValue, target,
          readOnly, simulation, last

vars ==
  <<content, title, headingTree, contextMenu, modal, inputValue, target,
    readOnly, simulation, last>>

editorVars == <<content, title, headingTree>>

graphVars == <<contextMenu, modal, inputValue, target>>

simVars == <<readOnly, simulation>>

----------------------------------------------------------------------------
(* Bounds of the model *)

\* lines of an initial buffer
MaxLines == 3

\* lines of a buffer that replaces the current one (typed edit, restore)
MaxReplaceLines == 2

\* lines of a buffer typed line by line
MaxParseLines == 3

\* pointers (mouse, fingers) that can hold a drag gesture at one time
MaxPointers == 2

----------------------------------------------------------------------------
(* Characters and strings *)

NL == "\n"

HASH == "#"

\* the characters JavaScript's \s matches, as far as the model uses them
WhiteSpace == {" ", "\t", "\r"}

\* the characters JavaScript's . does not match
LineTerminators == {"\n", "\r"}

MaxHeadingLevel == 6

SetMax(S) == CHOOSE x \in S : \A y \in S : y <= x

SetMin(S) == CHOOSE x \in S : \A y \in S : x <= y

Min2(a, b) == IF a <= b THEN a ELSE b

Repeat(c, n) == [i \in 1..n |-> c]

\* String.prototype.substring(from, to) on 0-based offsets
Substring(s, from, to) == SubSeq(s, from + 1, to)

EndsWithNL(s) == Len(s) > 0 /\ s[Len(s)] = NL

StartsWithNL(s) == Len(s) > 0 /\ s[1] = NL

\* String.prototype.split('\n')
RECURSIVE Split(_)
Split(s) ==
  IF \A i \in 1..Len(s) : s[i] # NL
  THEN <<s>>
  ELSE LET i == SetMin({j \in 1..Len(s) : s[j] = NL})
       IN  <<SubSeq(s, 1, i - 1)>> \o Split(SubSeq(s, i + 1, Len(s)))

\* Array.prototype.join('\n')
RECURSIVE Join(_)
Join(lines) ==
  IF Len(lines) = 0 THEN <<>>
  ELSE IF Len(lines) = 1 THEN lines[1]
  ELSE lines[1] \o <<NL>> \o Join(Tail(lines))

\* Array.prototype.slice(from, to) on 0-based indices
Slice(lines, from, to) == SubSeq(lines, from + 1, to)

\* String.prototype.trim()
RECURSIVE Trim(_)
Trim(s) ==
  IF Len(s) = 0 THEN s
  ELSE IF s[1] \in WhiteSpace \cup {NL} THEN Trim(Tail(s))
  ELSE IF s[Len(s)] \in WhiteSpace \cup {NL} THEN Trim(SubSeq(s, 1, Len(s) - 1))
  ELSE s

----------------------------------------------------------------------------
(* The two heading tests *)

\* the length of the run of '#' a line starts with
LeadingHashes(line) ==
  SetMax({n \in 0..Len(line) : \A j \in 1..n : line[j] = HASH})

\* the length of the run of whitespace that starts at position from
WhiteRun(line, from) ==
  SetMax({n \in 0..(Len(line) - from + 1) :
            \A j \in from..(from + n - 1) : line[j] \in WhiteSpace})

\* line.match(/^(#{1,6})\s+(.+)$/): the number of whitespace characters the
\* greedy \s+ keeps, 0 when the line does not match
ParserWhite(line) ==
  LET h == LeadingHashes(line)
      m == WhiteRun(line, h + 1)
      ok == {k \in 1..m :
               /\ h + k < Len(line)
               /\ \A j \in (h + k + 1)..Len(line) : line[j] \notin LineTerminators}
  IN  IF h \in 1..MaxHeadingLevel /\ ok # {} THEN SetMax(ok) ELSE 0

ParserMatches(line) == ParserWhite(line) > 0

\* match[1].length of the parser's match
ParserLevel(line) == LeadingHashes(line)

\* ParserText with match[2].trim() for match[2], the match not tested again: a
\* variant C16 must tell apart
ParserTextTrimmed(line) ==
  Trim(SubSeq(line, LeadingHashes(line) + ParserWhite(line) + 1, Len(line)))

\* match[2] of the parser's match
ParserText(line) ==
  SubSeq(line, LeadingHashes(line) + ParserWhite(line) + 1, Len(line))

\* lines[i].match(/^(#{1,6})\s/) of the editor's forward scans: the level,
\* 0 when the line does not match
ScanLevel(line) ==
  LET h == LeadingHashes(line)
  IN  IF h \in 1..MaxHeadingLevel /\ Len(line) > h /\ line[h + 1] \in WhiteSpace
      THEN h ELSE 0

----------------------------------------------------------------------------
(* The heading tree: nodes[1] is the root, children are indices into nodes *)

RootId == <<"root">>

HeadingId(index) == <<"heading", index>>

RootText == <<"R", "o", "o", "t">>

Untitled == <<"U", "n", "t", "i", "t", "l", "e", "d">>

RootNode ==
  [id |-> RootId, text |-> RootText, level |-> 0, line |-> 0, children |-> <<>>]

\* PopStack keeping a heading of the same level on the stack (> for >=): a
\* variant C11 must tell apart
RECURSIVE PopStackKeepEqual(_, _, _)
PopStackKeepEqual(nodes, stack, level) ==
  IF Len(stack) > 1 /\ nodes[stack[Len(stack)]].level > level
  THEN PopStackKeepEqual(nodes, SubSeq(stack, 1, Len(stack) - 1), level)
  ELSE stack

\* PopStack popping once at most (if for while): a variant C12 must tell apart
PopStackOnce(nodes, stack, level) ==
  IF Len(stack) > 1 /\ nodes[stack[Len(stack)]].level >= level
  THEN SubSeq(stack, 1, Len(stack) - 1)
  ELSE stack

\* while (stack.length > 1 && stack[stack.length - 1].level >= level) stack.pop()
RECURSIVE PopStack(_, _, _)
PopStack(nodes, stack, level) ==
  IF Len(stack) > 1 /\ nodes[stack[Len(stack)]].level >= level
  THEN PopStack(nodes, SubSeq(stack, 1, Len(stack) - 1), level)
  ELSE stack

\* ParseLine with the lines numbered from 1: a variant C10 must tell apart
ParseLineOneBased(st, line, index) ==
  IF ParserMatches(line)
  THEN LET level == ParserLevel(line)
           node == [id |-> HeadingId(index + 1), text |-> ParserText(line),
                    level |-> level, line |-> index + 1, children |-> <<>>]
           stack == PopStack(st.nodes, st.stack, level)
           top == stack[Len(stack)]
           k == Len(st.nodes) + 1
           pushed == [st.nodes EXCEPT ![top].children = Append(@, k)]
       IN  [nodes |-> Append(pushed, node), stack |-> Append(stack, k)]
  ELSE st

\* one turn of lines.forEach: st = [nodes, stack], index is 0-based
ParseLine(st, line, index) ==
  IF ParserMatches(line)
  THEN LET level == ParserLevel(line)
           node == [id |-> HeadingId(index), text |-> ParserText(line),
                    level |-> level, line |-> index, children |-> <<>>]
           stack == PopStack(st.nodes, st.stack, level)
           top == stack[Len(stack)]
           k == Len(st.nodes) + 1
           pushed == [st.nodes EXCEPT ![top].children = Append(@, k)]
       IN  [nodes |-> Append(pushed, node), stack |-> Append(stack, k)]
  ELSE st

RECURSIVE ParseLines(_, _, _)
ParseLines(st, lines, index) ==
  IF index >= Len(lines) THEN st
  ELSE ParseLines(ParseLine(st, lines[index + 1], index), lines, index + 1)

parseMarkdownHeadings(markdown) ==
  ParseLines([nodes |-> <<RootNode>>, stack |-> <<1>>], Split(markdown), 0).nodes

\* the useMemo of Editor: the parsed tree with the root renamed to the title
HeadingTreeOf(markdown, t) ==
  [parseMarkdownHeadings(markdown) EXCEPT
     ![1].text = IF Len(t) > 0 THEN t ELSE Untitled]

\* findNode of handleNodeAdd and handleNodeDelete: depth-first, the node itself
\* before its children; the index of the first node with this id, 0 for null
RECURSIVE FindFrom(_, _, _), FindInChildren(_, _, _, _)
FindFrom(tree, k, id) ==
  IF tree[k].id = id THEN k ELSE FindInChildren(tree, tree[k].children, 1, id)

FindInChildren(tree, kids, j, id) ==
  IF j > Len(kids) THEN 0
  ELSE LET found == FindFrom(tree, kids[j], id)
       IN  IF found # 0 THEN found ELSE FindInChildren(tree, kids, j + 1, id)

findNode(tree, id) == FindFrom(tree, 1, id)

\* findNodeByLine of handleNodeClick: the first node in depth-first order whose
\* line is the one given, as an index into the tree, 0 for null
RECURSIVE FindLineFrom(_, _, _), FindLineInChildren(_, _, _, _)
FindLineFrom(tree, k, line) ==
  IF tree[k].line = line THEN k
  ELSE FindLineInChildren(tree, tree[k].children, 1, line)

FindLineInChildren(tree, kids, j, line) ==
  IF j > Len(kids) THEN 0
  ELSE LET found == FindLineFrom(tree, kids[j], line)
       IN  IF found # 0 THEN found
           ELSE FindLineInChildren(tree, kids, j + 1, line)

findNodeByLine(tree, line) == FindLineFrom(tree, 1, line)

----------------------------------------------------------------------------
(* Editor.tsx: the structural edits of the buffer *)

\* ChildLevel without the cap at 6: a variant C7 must tell apart
ChildLevelUncapped(parentLevel) == parentLevel + 1

\* '#'.repeat(Math.min(newLevel, 6)).length with newLevel = parentNode.level + 1
ChildLevel(parentLevel) == Min2(parentLevel + 1, MaxHeadingLevel)

\* `${hashes} ${text}`
NewHeadingLine(level, text) == Repeat(HASH, level) \o <<" ">> \o text

\* ScanBoundary stopping only at a strictly shallower heading (level < ceiling):
\* a variant C1 must tell apart
ScanBoundaryStrict(lines, fromLine, ceiling) ==
  LET hits == {i \in (fromLine + 1)..(Len(lines) - 1) :
                 ScanLevel(lines[i + 1]) \in 1..(ceiling - 1)}
  IN  IF hits = {} THEN Len(lines) ELSE SetMin(hits)

\* the forward scans of handleNodeAdd and handleNodeDelete: the 0-based index of
\* the first line after fromLine that the scan takes for a heading of level
\* <= ceiling, Len(lines) when it finds none
ScanBoundary(lines, fromLine, ceiling) ==
  LET hits == {i \in (fromLine + 1)..(Len(lines) - 1) :
                 ScanLevel(lines[i + 1]) \in 1..ceiling}
  IN  IF hits = {} THEN Len(lines) ELSE SetMin(hits)

\* InsertIndex without the forward scan, always the end of the buffer: a variant
\* C6 must tell apart
InsertIndexAtEnd(markdown, parentNode, parentId) == Len(markdown)

\* insertIndex of handleNodeAdd, a 0-based offset into the buffer
InsertIndex(markdown, parentNode, parentId) ==
  IF parentId = RootId THEN Len(markdown)
  ELSE LET lines == Split(markdown)
           i == ScanBoundary(lines, parentNode.line, parentNode.level)
       IN  IF i < Len(lines)
           THEN Len(Join(Slice(lines, 0, i))) + 1
           ELSE Len(markdown)

\* ToInsert with a separator on both sides whatever the neighbours are: a
\* variant C17 must tell apart
ToInsertBothSeparators(before, after, line) ==
  <<NL>> \o line \o <<NL>>

\* toInsert of handleNodeAdd
ToInsert(before, after, line) ==
  (IF EndsWithNL(before) THEN <<>> ELSE <<NL>>)
    \o line
    \o (IF StartsWithNL(after) THEN <<>> ELSE <<NL>>)

\* newMarkdown of handleNodeAdd for a parent that resolved
InsertUnder(markdown, parentNode, parentId, text) ==
  LET insertIndex == InsertIndex(markdown, parentNode, parentId)
      before == Substring(markdown, 0, insertIndex)
      after == Substring(markdown, insertIndex, Len(markdown))
      line == NewHeadingLine(ChildLevel(parentNode.level), text)
  IN  before \o ToInsert(before, after, line) \o after

\* the buffer handleNodeAdd leaves: unchanged when parentId resolves to no node
handleNodeAdd(markdown, tree, parentId, text) ==
  LET k == findNode(tree, parentId)
  IN  IF k = 0 THEN markdown ELSE InsertUnder(markdown, tree[k], parentId, text)

\* RemoveSubtree taking out the node's own line only: a variant C3 must tell
\* apart
RemoveHeadingLineOnly(markdown, node) ==
  LET lines == Split(markdown)
  IN  Join(Slice(lines, 0, node.line) \o Slice(lines, node.line + 1, Len(lines)))

\* RemoveSubtree keeping the node's own line and taking out what is below it:
\* a variant C29 must tell apart
RemoveBelowOnly(markdown, node) ==
  LET lines == Split(markdown)
      startLine == node.line + 1
      endLine == ScanBoundary(lines, node.line, node.level)
  IN  Join(Slice(lines, 0, startLine) \o Slice(lines, endLine, Len(lines)))

\* newMarkdown of handleNodeDelete for a node that resolved
RemoveSubtree(markdown, node) ==
  LET lines == Split(markdown)
      startLine == node.line
      endLine == ScanBoundary(lines, startLine, node.level)
  IN  Join(Slice(lines, 0, startLine) \o Slice(lines, endLine, Len(lines)))

\* handleNodeDelete without the test for the root: a variant C8 must tell apart
handleNodeDeleteOfRootToo(markdown, tree, id) ==
  LET k == findNode(tree, id)
  IN  IF k = 0 THEN markdown ELSE RemoveSubtree(markdown, tree[k])

\* the buffer handleNodeDelete leaves: unchanged for the root and for a miss
handleNodeDelete(markdown, tree, id) ==
  LET k == findNode(tree, id)
  IN  IF k = 0 \/ tree[k].id = RootId THEN markdown
      ELSE RemoveSubtree(markdown, tree[k])

----------------------------------------------------------------------------
(* Inputs *)

H(level, text) == NewHeadingLine(level, text)

\* the lines initial buffers are made of: blank, body text, a marker-only
\* line, headings of levels 1, 2, 3 and 6
LineShapes ==
  { <<>>, <<"t">>, H(1, <<>>),
    H(1, <<"a">>), H(2, <<"a">>), H(2, <<"b">>), H(3, <<"a">>), H(6, <<"a">>) }

\* the lines replacement buffers are made of
ReplaceShapes == { H(1, <<"a">>), H(2, <<"b">>) }

BuffersOf(shapes, n) ==
  { Join(ls) : ls \in UNION { [1..k -> shapes] : k \in 1..n } }

Buffers == BuffersOf(LineShapes, MaxLines)

Replacements == BuffersOf(ReplaceShapes, MaxReplaceLines)

\* texts the dialog hands to onNodeAdd: trimmed and not empty
Texts == { <<"a">>, <<"x", " ", "y">> }

\* what the user may have typed into the dialog
InputValues == { <<>>, <<" ">>, <<" ", "a", " ">> }

Titles == { <<>>, <<"T">> }

NoId == <<"none">>

Ids == {RootId} \cup {HeadingId(i) : i \in 0..MaxLines}

LineCount(markdown) == Len(Split(markdown))

----------------------------------------------------------------------------
(* State *)

MenuClosed == [visible |-> FALSE, nodeId |-> NoId]

\* the dialog's title names the menu action that opened it: "subitem" for
\* the add-child button, "delete" for the delete button, "topic" for the
\* background menu's button
ModalClosed ==
  [isOpen |-> FALSE, type |-> "none", nodeId |-> NoId, title |-> "none"]

NoTarget == [id |-> NoId, level |-> -1, text |-> <<>>]

\* no navigation requested of the rich-text editor
NoNav == [found |-> FALSE, level |-> -1, text |-> <<>>]

\* neither menu nor dialog on screen
NoUi == [menu |-> FALSE, dialog |-> "none"]

\* the title of the dialog a step was taken in
DialogTitle == IF modal.isOpen THEN modal.title ELSE "none"

NoEdit ==
  [op |-> "none", id |-> NoId, text |-> <<>>, content |-> <<>>,
   tree |-> <<RootNode>>, node |-> 0, target |-> NoTarget,
   key |-> "none", was |-> NoUi, nav |-> NoNav, from |-> "none",
   input |-> <<>>]

TargetOf(node) == [id |-> node.id, level |-> node.level, text |-> node.text]

----------------------------------------------------------------------------
(* The force simulation and the drag gestures of the graph *)

\* alphaTarget(0.3) of the drag's start listener, in tenths
AlphaRaised == 3

Pointers == 1..MaxPointers

NoGesture == [sim |-> 0, node |-> NoId]

\* d3.forceSimulation(nodes) with its d3.drag(): the generation of node objects
\* it runs over, whether stop() halted it, its alpha target, and the number of
\* gestures its drag behaviour holds (event.active)
NewSimulation(objs) ==
  [objs |-> objs, stopped |-> FALSE, alphaTarget |-> 0, active |-> 0]

\* the graph as first rendered on a device of n pointers: one simulation over
\* the tree's node objects, none of which has fx or fy
InitSimulationFor(n) ==
  [mounted |-> TRUE,
   pointers |-> n,
   sims |-> <<NewSimulation(1)>>,
   pinned |-> << {} >>,
   gestures |-> [p \in Pointers |-> NoGesture]]

\* with a mouse
InitSimulation == InitSimulationFor(1)

\* the number of elements of S that are at most x
Rank(S, x) == Cardinality({y \in S : y <= x})

\* the state without what nothing refers to any more: halted simulations with
\* no gesture left, node objects of neither the tree nor a simulation
Collect(s) ==
  LET keepS == {i \in 1..Len(s.sims) :
                  \/ ~s.sims[i].stopped
                  \/ \E p \in Pointers : s.gestures[p].sim = i}
      keepO == {Len(s.pinned)} \cup {s.sims[i].objs : i \in keepS}
      simAt(k) == CHOOSE i \in keepS : Rank(keepS, i) = k
      objAt(k) == CHOOSE o \in keepO : Rank(keepO, o) = k
  IN  [s EXCEPT
        !.sims = [k \in 1..Cardinality(keepS) |->
                    [s.sims[simAt(k)] EXCEPT !.objs = Rank(keepO, @)]],
        !.pinned = [k \in 1..Cardinality(keepO) |-> s.pinned[objAt(k)]],
        !.gestures = [p \in Pointers |->
                        IF s.gestures[p].sim = 0 THEN NoGesture
                        ELSE [s.gestures[p] EXCEPT !.sim = Rank(keepS, @)]]]

\* the effect's cleanup without simulation.stop(): a variant C23 must tell apart
StopSimulationNot(s) == s

\* the effect's cleanup: simulation.stop() on the simulation of the last run
StopSimulation(s) ==
  IF s.mounted
  THEN [s EXCEPT !.sims[Len(s.sims)].stopped = TRUE, !.mounted = FALSE]
  ELSE s

\* the effect's run: a simulation, with its drag behaviour, over the node
\* objects of the tree passed as data
StartSimulation(s) ==
  [s EXCEPT !.sims = Append(@, NewSimulation(Len(s.pinned))),
            !.mounted = TRUE]

\* the effect run again for dependencies that changed, data being the same tree
RunEffect(s) ==
  IF s.mounted THEN Collect(StartSimulation(StopSimulation(s))) ELSE s

\* useMemo made a new tree, of new node objects; the effect runs again for it
\* when the graph is on screen
TreeChanged(s) ==
  Collect(RunEffect([s EXCEPT !.pinned = Append(@, {})]))

\* the simulation after a render with the buffer and title given: useMemo
\* makes a tree when one of the two changed
Rendered(newContent, newTitle) ==
  IF newContent # content \/ newTitle # title
  THEN TreeChanged(simulation) ELSE simulation

\* the drag's start listener for pointer p on the node d of the graph on screen
DragStarted(s, p, d) ==
  LET cur == Len(s.sims)
      sim == s.sims[cur]
  IN  [s EXCEPT
        !.sims[cur] = [sim EXCEPT
                        !.alphaTarget = IF sim.active = 0 THEN AlphaRaised ELSE @,
                        !.stopped = IF sim.active = 0 THEN FALSE ELSE @,
                        !.active = @ + 1],
        !.pinned[sim.objs] = @ \cup {d},
        !.gestures[p] = [sim |-> cur, node |-> d]]

\* the drag listener
Dragged(s, p) ==
  LET g == s.gestures[p]
  IN  [s EXCEPT !.pinned[s.sims[g.sim].objs] = @ \cup {g.node}]

\* the alpha target the end listener leaves, resetting it whatever
\* event.active is: a variant C30 must tell apart
EndAlphaTargetAlways(active, alphaTarget) == 0

\* if (!event.active) simulation.alphaTarget(0), active being the number of
\* gestures left
EndAlphaTarget(active, alphaTarget) ==
  IF active = 0 THEN 0 ELSE alphaTarget

\* the drag's end listener
DragEnded(s, p) ==
  LET g == s.gestures[p]
      sim == s.sims[g.sim]
  IN  Collect([s EXCEPT
        !.sims[g.sim] = [sim EXCEPT
                          !.active = @ - 1,
                          !.alphaTarget = EndAlphaTarget(sim.active - 1, @)],
        !.pinned[sim.objs] = @ \ {g.node},
        !.gestures[p] = NoGesture])

InitGraph ==
  /\ contextMenu = MenuClosed
  /\ modal = ModalClosed
  /\ inputValue = <<>>
  /\ target = NoTarget
  /\ readOnly = FALSE
  /\ simulation = InitSimulation
  /\ last = NoEdit

\* flattenGraph of MindmapGraph: the nodes in depth-first pre-order
RECURSIVE Traverse(_, _), TraverseChildren(_, _, _)
Traverse(tree, k) == <<k>> \o TraverseChildren(tree, tree[k].children, 1)

TraverseChildren(tree, kids, j) ==
  IF j > Len(kids) THEN <<>>
  ELSE Traverse(tree, kids[j]) \o TraverseChildren(tree, kids, j + 1)

flattenGraph(tree) == Traverse(tree, 1)

\* the link traverse pushes for a child, with the root's id for the id of the
\* node visited: a variant C25 must tell apart
LinkFromRoot(tree, k, child) ==
  [source |-> tree[1].id, target |-> tree[child].id]

\* links.push({ source: node.id, target: child.id })
Link(tree, k, child) ==
  [source |-> tree[k].id, target |-> tree[child].id]

\* the links of flattenGraph, in the order traverse pushes them
RECURSIVE TraverseLinks(_, _), TraverseChildLinks(_, _, _)
TraverseLinks(tree, k) == TraverseChildLinks(tree, k, 1)

TraverseChildLinks(tree, k, j) ==
  IF j > Len(tree[k].children) THEN <<>>
  ELSE <<Link(tree, k, tree[k].children[j])>>
         \o TraverseLinks(tree, tree[k].children[j])
         \o TraverseChildLinks(tree, k, j + 1)

flattenLinks(tree) == TraverseLinks(tree, 1)

\* the keys the dialog's input listens to
Keys == {"Enter", "Escape"}

\* what is on screen when a key goes down
UiNow ==
  [menu |-> contextMenu.visible,
   dialog |-> IF modal.isOpen THEN modal.type ELSE "none"]

WasFor(key) == IF key = "none" THEN NoUi ELSE UiNow

\* setContent(newMarkdown) of handleNodeAdd and the render that follows it
EditorAddBy(parentId, text, tgt, key) ==
  /\ content' = handleNodeAdd(content, headingTree, parentId, text)
  /\ headingTree' = HeadingTreeOf(content', title)
  /\ last' = [op |-> "add", id |-> parentId, text |-> text, content |-> content,
              tree |-> headingTree, node |-> findNode(headingTree, parentId),
              target |-> tgt, key |-> key, was |-> WasFor(key), nav |-> NoNav,
              from |-> DialogTitle, input |-> inputValue]
  /\ simulation' = Rendered(content', title)
  /\ UNCHANGED <<title, readOnly>>

EditorAdd(parentId, text, tgt) == EditorAddBy(parentId, text, tgt, "none")

\* setContent(newMarkdown) of handleNodeDelete and the render that follows it
EditorDelete(id, tgt) ==
  /\ content' = handleNodeDelete(content, headingTree, id)
  /\ headingTree' = HeadingTreeOf(content', title)
  /\ last' = [op |-> "delete", id |-> id, text |-> <<>>, content |-> content,
              tree |-> headingTree, node |-> findNode(headingTree, id),
              target |-> tgt, key |-> "none", was |-> NoUi, nav |-> NoNav,
              from |-> DialogTitle, input |-> <<>>]
  /\ simulation' = Rendered(content', title)
  /\ UNCHANGED <<title, readOnly>>

----------------------------------------------------------------------------
(* SpecEdit: handleNodeAdd and handleNodeDelete applied to any buffer *)

InitEdit ==
  /\ content \in Buffers
  /\ title \in Titles
  /\ headingTree = HeadingTreeOf(content, title)
  /\ InitGraph

\* onNodeAdd called with any id and text, once, on the initial buffer
NodeAdd ==
  /\ last.op = "none"
  /\ \E parentId \in Ids, text \in Texts : EditorAdd(parentId, text, NoTarget)
  /\ UNCHANGED graphVars

\* onNodeDelete called with any id, once, on the initial buffer
NodeDelete ==
  /\ last.op = "none"
  /\ \E id \in Ids : EditorDelete(id, NoTarget)
  /\ UNCHANGED graphVars

NextEdit == NodeAdd \/ NodeDelete

SpecEdit == InitEdit /\ [][NextEdit]_vars

----------------------------------------------------------------------------
(* SpecParse: the parser on buffers typed line by line *)

\* the lines typed: blank, body text, headings of levels 1, 2, 3 and 6, a
\* heading with a blank after its text, markers with one blank and with two
\* blanks and no text, a marker without a blank, seven markers
ParseShapes ==
  { <<>>, <<"t">>,
    H(1, <<"a">>), H(2, <<"a">>), H(3, <<"b">>), H(6, <<"a">>),
    H(1, <<"a", " ">>), H(1, <<>>), H(1, <<" ">>),
    <<"#", "a">>, Repeat(HASH, 7) \o <<" ", "a">> }

InitParse ==
  /\ content \in BuffersOf(ParseShapes, 1)
  /\ title \in Titles
  /\ headingTree = HeadingTreeOf(content, title)
  /\ InitGraph

\* onUpdate of the rich-text editor after a line was typed at the end
TypeLine ==
  /\ LineCount(content) < MaxParseLines
  /\ \E line \in ParseShapes :
       /\ content' = content \o <<NL>> \o line
       /\ headingTree' = HeadingTreeOf(content', title)
  /\ last' = [NoEdit EXCEPT !.op = "replace"]
  /\ simulation' = Rendered(content', title)
  /\ UNCHANGED <<title, readOnly, graphVars>>

NextParse == TypeLine

SpecParse == InitParse /\ [][NextParse]_vars

----------------------------------------------------------------------------
(* Spec: the editor with the mind map's context menu and dialog *)

Init ==
  /\ content \in Replacements
  /\ title \in Titles
  /\ headingTree = HeadingTreeOf(content, title)
  /\ InitGraph

\* onUpdate of the rich-text editor, confirmRestore: the buffer is replaced
Replace ==
  /\ \E b \in Replacements :
       /\ b # content
       /\ content' = b
       /\ headingTree' = HeadingTreeOf(b, title)
  /\ last' = [NoEdit EXCEPT !.op = "replace"]
  /\ simulation' = Rendered(content', title)
  /\ UNCHANGED <<title, readOnly, graphVars>>

\* setTitle of the title input and of confirmRestore
SetTitle ==
  /\ \E t \in Titles :
       /\ t # title
       /\ title' = t
       /\ headingTree' = HeadingTreeOf(content, t)
  /\ last' = [NoEdit EXCEPT !.op = "title"]
  /\ simulation' = Rendered(content, title')
  /\ UNCHANGED <<content, readOnly, graphVars>>

\* the node the dialog is opened for: the node its id denotes in the tree shown
\* when it opens (kept for the properties; the program stores the id alone)
TargetAt(id) ==
  IF \E j \in 1..Len(headingTree) : headingTree[j].id = id
  THEN TargetOf(headingTree[CHOOSE j \in 1..Len(headingTree) :
                              headingTree[j].id = id])
  ELSE NoTarget

\* NodeContextMenu without the test of readOnly: a variant C28 must tell apart
NodeContextMenuReadOnlyToo ==
  /\ simulation.mounted
  /\ ~modal.isOpen
  /\ \E i \in 1..Len(flattenGraph(headingTree)) :
       LET d == headingTree[flattenGraph(headingTree)[i]]
       IN  contextMenu' = [visible |-> TRUE, nodeId |-> d.id]
  /\ last' = NoEdit
  /\ UNCHANGED <<editorVars, simVars, modal, inputValue, target>>

\* contextmenu on a node of the rendered graph; the dialog's overlay covers the
\* graph while the dialog is open
NodeContextMenu ==
  /\ ~readOnly
  /\ simulation.mounted
  /\ ~modal.isOpen
  /\ \E i \in 1..Len(flattenGraph(headingTree)) :
       LET d == headingTree[flattenGraph(headingTree)[i]]
       IN  contextMenu' = [visible |-> TRUE, nodeId |-> d.id]
  /\ last' = NoEdit
  /\ UNCHANGED <<editorVars, simVars, modal, inputValue, target>>

\* contextmenu on the background of the graph
BackgroundContextMenu ==
  /\ ~readOnly
  /\ simulation.mounted
  /\ ~modal.isOpen
  /\ contextMenu' = [visible |-> TRUE, nodeId |-> NoId]
  /\ last' = NoEdit
  /\ UNCHANGED <<editorVars, simVars, modal, inputValue, target>>

\* handleClickOutside: a click that reaches the document
ClickOutside ==
  /\ contextMenu.visible
  /\ contextMenu' = MenuClosed
  /\ last' = NoEdit
  /\ UNCHANGED <<editorVars, simVars, modal, inputValue, target>>

\* the menu's add-child button
MenuAddChild ==
  /\ contextMenu.visible
  /\ contextMenu.nodeId # NoId
  /\ contextMenu' = MenuClosed
  /\ inputValue' = <<>>
  /\ modal' = [isOpen |-> TRUE, type |-> "input", nodeId |-> contextMenu.nodeId,
               title |-> "subitem"]
  /\ target' = TargetAt(contextMenu.nodeId)
  /\ last' = NoEdit
  /\ UNCHANGED <<editorVars, simVars>>

\* MenuDelete with the button rendered for the root as well: a variant C21
\* must tell apart
MenuDeleteRootToo ==
  /\ contextMenu.visible
  /\ contextMenu.nodeId # NoId
  /\ contextMenu' = MenuClosed
  /\ modal' = [isOpen |-> TRUE, type |-> "confirm", nodeId |-> contextMenu.nodeId,
               title |-> "delete"]
  /\ target' = TargetAt(contextMenu.nodeId)
  /\ last' = NoEdit
  /\ UNCHANGED <<editorVars, simVars, inputValue>>

\* the menu's delete button, rendered for every node but the root
MenuDelete ==
  /\ contextMenu.visible
  /\ contextMenu.nodeId # NoId
  /\ contextMenu.nodeId # RootId
  /\ contextMenu' = MenuClosed
  /\ modal' = [isOpen |-> TRUE, type |-> "confirm", nodeId |-> contextMenu.nodeId,
               title |-> "delete"]
  /\ target' = TargetAt(contextMenu.nodeId)
  /\ last' = NoEdit
  /\ UNCHANGED <<editorVars, simVars, inputValue>>

\* MenuAddTopic with the menu's nodeId, which is undefined, for 'root': a
\* variant C22 must tell apart
MenuAddTopicOfMenuId ==
  /\ contextMenu.visible
  /\ contextMenu.nodeId = NoId
  /\ contextMenu' = MenuClosed
  /\ inputValue' = <<>>
  /\ modal' = [isOpen |-> TRUE, type |-> "input", nodeId |-> contextMenu.nodeId,
               title |-> "topic"]
  /\ target' = TargetAt(contextMenu.nodeId)
  /\ last' = NoEdit
  /\ UNCHANGED <<editorVars, simVars>>

\* the background menu's add-topic button
MenuAddTopic ==
  /\ contextMenu.visible
  /\ contextMenu.nodeId = NoId
  /\ contextMenu' = MenuClosed
  /\ inputValue' = <<>>
  /\ modal' = [isOpen |-> TRUE, type |-> "input", nodeId |-> RootId,
               title |-> "topic"]
  /\ target' = TargetAt(RootId)
  /\ last' = NoEdit
  /\ UNCHANGED <<editorVars, simVars>>

\* onChange of the dialog's text input
SetInputValue ==
  /\ modal.isOpen
  /\ modal.type = "input"
  /\ \E v \in InputValues : v # inputValue /\ inputValue' = v
  /\ last' = NoEdit
  /\ UNCHANGED <<editorVars, simVars, contextMenu, modal, target>>

\* handleModalConfirmBy passing the input on as it is when it is not empty: a
\* variant C27 must tell apart
handleModalConfirmUntrimmed(key) ==
  /\ modal.isOpen
  /\ IF modal.type = "input"
     THEN IF Len(inputValue) > 0
          THEN /\ LineCount(content) <= MaxReplaceLines
               /\ EditorAddBy(modal.nodeId, inputValue, target, key)
          ELSE /\ last' = [NoEdit EXCEPT !.key = key, !.was = WasFor(key)]
               /\ UNCHANGED <<editorVars, simVars>>
     ELSE EditorDelete(modal.nodeId, target)
  /\ modal' = ModalClosed
  /\ inputValue' = <<>>
  /\ target' = NoTarget
  /\ UNCHANGED contextMenu

\* handleModalConfirm, called by the key given or, for "none", by the dialog's
\* confirm button
handleModalConfirmBy(key) ==
  /\ modal.isOpen
  /\ IF modal.type = "input"
     THEN IF Len(Trim(inputValue)) > 0
          THEN /\ LineCount(content) <= MaxReplaceLines
               /\ EditorAddBy(modal.nodeId, Trim(inputValue), target, key)
          ELSE /\ last' = [NoEdit EXCEPT !.key = key, !.was = WasFor(key)]
               /\ UNCHANGED <<editorVars, simVars>>
     ELSE EditorDelete(modal.nodeId, target)
  /\ modal' = ModalClosed
  /\ inputValue' = <<>>
  /\ target' = NoTarget
  /\ UNCHANGED contextMenu

\* the dialog's confirm button
handleModalConfirm == handleModalConfirmBy("none")

\* setModal(null), called by the key given or, for "none", by the cancel button
\* or a click on the overlay
ModalCancelBy(key) ==
  /\ modal.isOpen
  /\ modal' = ModalClosed
  /\ target' = NoTarget
  /\ last' = [NoEdit EXCEPT !.key = key, !.was = WasFor(key)]
  /\ UNCHANGED <<editorVars, simVars, contextMenu, inputValue>>

\* the cancel button, a click on the overlay
ModalCancel == ModalCancelBy("none")

\* a key going down while the menu or the dialog is on screen. The one keydown
\* listener of the component is on the dialog's text input, which holds the
\* focus (autoFocus); with the menu or the confirmation on screen no listener
\* receives the key.
KeyDown ==
  /\ contextMenu.visible \/ modal.isOpen
  /\ \E key \in Keys :
       IF modal.isOpen /\ modal.type = "input"
       THEN IF key = "Enter" THEN handleModalConfirmBy(key)
            ELSE ModalCancelBy(key)
       ELSE /\ last' = [NoEdit EXCEPT !.op = "keydown", !.key = key,
                                      !.was = UiNow]
            /\ UNCHANGED <<editorVars, simVars, graphVars>>

\* the headings of the rich-text editor's document, which the buffer is the
\* serialization of: a level and a text content for each
DocHeadings(markdown) ==
  LET tree == parseMarkdownHeadings(markdown)
  IN  {<<tree[j].level, tree[j].text>> : j \in 2..Len(tree)}

\* the selection handleNodeClick asks the rich-text editor for
Navigation(markdown, tree, lineIndex) ==
  LET t == findNodeByLine(tree, lineIndex)
  IN  IF t # 0 /\ <<tree[t].level, tree[t].text>> \in DocHeadings(markdown)
      THEN [found |-> TRUE, level |-> tree[t].level, text |-> tree[t].text]
      ELSE NoNav

\* click on a node of the rendered graph: onNodeClick(d.line), handleNodeClick.
\* The click reaches the document, whose listener closes the menu.
NodeClick ==
  /\ simulation.mounted
  /\ ~modal.isOpen
  /\ \E i \in 1..Len(flattenGraph(headingTree)) :
       LET d == headingTree[flattenGraph(headingTree)[i]]
       IN  last' = [NoEdit EXCEPT
                     !.op = "click", !.id = d.id, !.target = TargetOf(d),
                     !.node = findNodeByLine(headingTree, d.line),
                     !.nav = Navigation(content, headingTree, d.line)]
  /\ contextMenu' = MenuClosed
  /\ UNCHANGED <<editorVars, simVars, modal, inputValue, target>>

Next ==
  \/ Replace
  \/ SetTitle
  \/ NodeContextMenu
  \/ BackgroundContextMenu
  \/ ClickOutside
  \/ MenuAddChild
  \/ MenuDelete
  \/ MenuAddTopic
  \/ SetInputValue
  \/ handleModalConfirm
  \/ ModalCancel
  \/ KeyDown
  \/ NodeClick

Spec == Init /\ [][Next]_vars

----------------------------------------------------------------------------
(* SpecSim: the graph with its simulation and drag gestures, in the editor *)
(* and in the public viewer                                                *)

\* a pointer goes down on a node of the graph and a gesture starts; the
\* dialog's overlay covers the graph while the dialog is open
DragStart ==
  /\ simulation.mounted
  /\ ~modal.isOpen
  /\ \E p \in 1..simulation.pointers, i \in 1..Len(flattenGraph(headingTree)) :
       /\ simulation.gestures[p] = NoGesture
       /\ simulation' =
            DragStarted(simulation, p, headingTree[flattenGraph(headingTree)[i]].id)
  /\ last' = [NoEdit EXCEPT !.op = "dragstart"]
  /\ UNCHANGED <<editorVars, graphVars, readOnly>>

\* the pointer of a gesture moves
DragMove ==
  /\ \E p \in Pointers :
       /\ simulation.gestures[p] # NoGesture
       /\ simulation' = Dragged(simulation, p)
  /\ last' = [NoEdit EXCEPT !.op = "drag"]
  /\ UNCHANGED <<editorVars, graphVars, readOnly>>

\* the pointer of a gesture goes up
DragEnd ==
  /\ \E p \in Pointers :
       /\ simulation.gestures[p] # NoGesture
       /\ simulation' = DragEnded(simulation, p)
  /\ last' = [NoEdit EXCEPT !.op = "dragend"]
  /\ UNCHANGED <<editorVars, graphVars, readOnly>>

\* a render of the public viewer: onNodeClick is a new function, data the same
\* tree, and the effect runs again
Rerender ==
  /\ readOnly
  /\ simulation.mounted
  /\ simulation' = RunEffect(simulation)
  /\ last' = [NoEdit EXCEPT !.op = "render"]
  /\ UNCHANGED <<editorVars, graphVars, readOnly>>

\* the editor's view changes to text only: the graph is removed, its state
\* with it
Unmount ==
  /\ ~readOnly
  /\ simulation.mounted
  /\ simulation' = Collect(StopSimulation(simulation))
  /\ contextMenu' = MenuClosed
  /\ modal' = ModalClosed
  /\ inputValue' = <<>>
  /\ target' = NoTarget
  /\ last' = [NoEdit EXCEPT !.op = "unmount"]
  /\ UNCHANGED <<editorVars, readOnly>>

\* the editor's view changes to one with the graph
Mount ==
  /\ ~simulation.mounted
  /\ simulation' = StartSimulation(simulation)
  /\ last' = [NoEdit EXCEPT !.op = "mount"]
  /\ UNCHANGED <<editorVars, graphVars, readOnly>>

\* the saved versions of the project the history dialog lists
Versions ==
  { [content |-> H(1, <<"a">>), title |-> <<>>],
    [content |-> H(1, <<"a">>) \o <<NL>> \o H(2, <<"b">>), title |-> <<>>],
    [content |-> H(2, <<"b">>), title |-> <<"T">>] }

\* confirmRestore: the buffer and the title become those of the version chosen
\* in the editor's history dialog
Restore ==
  /\ ~readOnly
  /\ \E v \in Versions :
       /\ v.content # content \/ v.title # title
       /\ content' = v.content
       /\ title' = v.title
       /\ headingTree' = HeadingTreeOf(v.content, v.title)
  /\ last' = [NoEdit EXCEPT !.op = "restore"]
  /\ simulation' = Rendered(content', title')
  /\ UNCHANGED <<readOnly, graphVars>>

\* the editor, or the public viewer, on a touch screen
InitSim ==
  /\ \E v \in Versions : content = v.content /\ title = v.title
  /\ headingTree = HeadingTreeOf(content, title)
  /\ contextMenu = MenuClosed
  /\ modal = ModalClosed
  /\ inputValue = <<>>
  /\ target = NoTarget
  /\ readOnly \in BOOLEAN
  /\ simulation = InitSimulationFor(MaxPointers)
  /\ last = NoEdit

NextSim ==
  \/ Restore
  \/ DragStart
  \/ DragMove
  \/ DragEnd
  \/ Rerender
  \/ Unmount
  \/ Mount

SpecSim == InitSim /\ [][NextSim]_vars

----------------------------------------------------------------------------
(* SpecGraph: every gesture on the graph, with a mouse, in the editor and in *)
(* the public viewer                                                         *)

\* a mind-map project as created ('# Root'), or its one-letter like
InitGraphOnly ==
  /\ content = H(1, <<"a">>)
  /\ title = <<>>
  /\ headingTree = HeadingTreeOf(content, title)
  /\ contextMenu = MenuClosed
  /\ modal = ModalClosed
  /\ inputValue = <<>>
  /\ target = NoTarget
  /\ readOnly \in BOOLEAN
  /\ simulation = InitSimulation
  /\ last = NoEdit

NextGraph ==
  \/ NodeContextMenu
  \/ BackgroundContextMenu
  \/ ClickOutside
  \/ MenuAddChild
  \/ MenuDelete
  \/ MenuAddTopic
  \/ SetInputValue
  \/ handleModalConfirm
  \/ ModalCancel
  \/ KeyDown
  \/ NodeClick
  \/ DragStart
  \/ DragMove
  \/ DragEnd

SpecGraph == InitGraphOnly /\ [][NextGraph]_vars

----------------------------------------------------------------------------
(* Vocabulary of the properties.  `last` describes the step just taken: the  *)
(* edit, the id and text it was called with, and the buffer and tree it saw. *)

Resolves(tree, id) == \E j \in 1..Len(tree) : tree[j].id = id

ResolvedNode(tree, id) == tree[CHOOSE j \in 1..Len(tree) : tree[j].id = id]

Added == last.op = "add" /\ Resolves(last.tree, last.id)

Deleted ==
  last.op = "delete" /\ Resolves(last.tree, last.id) /\ last.id # RootId

\* the node the last edit was called on, as the handler's tree had it
EditedNode == ResolvedNode(last.tree, last.id)

BeforeLines == Split(last.content)

\* a tree's nodes, the root apart
Headings(tree) == 2..Len(tree)

NodeAtLine(tree, l) ==
  IF \E j \in Headings(tree) : tree[j].line = l
  THEN CHOOSE j \in Headings(tree) : tree[j].line = l
  ELSE 0

ParentIn(tree, j) ==
  CHOOSE q \in 1..Len(tree) :
    \E i \in 1..Len(tree[q].children) : tree[q].children[i] = j

\* j and everything below it
RECURSIVE Subtree(_, _)
Subtree(tree, j) ==
  {j} \cup UNION { Subtree(tree, tree[j].children[i]) :
                     i \in 1..Len(tree[j].children) }

\* the end of a node's line range as the editor's scan sees it
ScanEnd(lines, n) ==
  LET later == {i \in (n.line + 1)..(Len(lines) - 1) :
                  /\ ScanLevel(lines[i + 1]) >= 1
                  /\ ScanLevel(lines[i + 1]) <= n.level}
  IN  IF later = {} THEN Len(lines) ELSE SetMin(later)

\* the end of a node's line range as the parser sees it
ParserEnd(lines, n) ==
  LET later == {i \in (n.line + 1)..(Len(lines) - 1) :
                  /\ ParserMatches(lines[i + 1])
                  /\ ParserLevel(lines[i + 1]) <= n.level}
  IN  IF later = {} THEN Len(lines) ELSE SetMin(later)

\* the 0-based offset at which line i of lines starts
RECURSIVE LineStart(_, _)
LineStart(lines, i) ==
  IF i = 0 THEN 0 ELSE LineStart(lines, i - 1) + Len(lines[i]) + 1

\* where an inserted line comes to stand when the insertion is made in front of
\* line b of lines (b = Len(lines): at the end of the buffer)
InsertedLine(lines, b) ==
  IF b < Len(lines) THEN b
  ELSE IF Len(lines) > 1 /\ lines[Len(lines)] = <<>> THEN Len(lines) - 1
  ELSE Len(lines)

----------------------------------------------------------------------------
(* C1 *)

\* The node the add was called on, in the reparsed tree: the root, or the
\* heading still on the parent's line.
ParentAfter ==
  IF last.id = RootId THEN 1 ELSE NodeAtLine(headingTree, EditedNode.line)

----------------------------------------------------------------------------
(* C2 .. C5: deleteSubtree *)

EditedIndex == CHOOSE j \in 1..Len(last.tree) : last.tree[j].id = last.id

\* lines without the lines from..(to - 1), 0-based
WithoutLines(lines, from, to) ==
  SubSeq(lines, 1, from) \o SubSeq(lines, to + 1, Len(lines))

\* C2 as stated: deleteSubtree(n.id) returns the buffer with exactly the lines
\* [n.line, end) removed, end being the first later line the parser recognises
\* as a heading of level <= n.level, or the end of the buffer.
C2_RemovesParserRange ==
  Deleted =>
    content = Join(WithoutLines(BeforeLines, EditedNode.line,
                                ParserEnd(BeforeLines, EditedNode)))

SameSignature(a, b) == a.level = b.level /\ a.text = b.text

Pruned(tree, S) ==
  LET kept == {j \in 1..Len(tree) : j \notin S}
      rank(j) == Cardinality({i \in kept : i <= j})
      old(r) == CHOOSE j \in kept : rank(j) = r
      stay(j) == j \notin S
  IN  [r \in 1..Cardinality(kept) |->
         LET kids == SelectSeq(tree[old(r)].children, stay)
         IN  [level |-> tree[old(r)].level,
              text |-> tree[old(r)].text,
              children |-> [i \in 1..Len(kids) |-> rank(kids[i])]]]

\* level, text and children of every node: a tree but for line indices and ids
Shape(tree) == Pruned(tree, {})

\* C4 as stated: the tree reparsed after deleteSubtree(n.id) is the original
\* tree with exactly n's subtree removed; every other node keeps its level,
\* text, parent and place among its siblings.
C4_OnlySubtreeRemoved ==
  Deleted =>
    Shape(headingTree) = Pruned(last.tree, Subtree(last.tree, EditedIndex))

\* C5 as stated: for every non-root node n, the nodes on the lines
\* [n.line, end) of the editor's forward scan are exactly n and its
\* descendants.
C5_Containment ==
  \A j \in Headings(headingTree) :
    LET n == headingTree[j]
        end == ScanEnd(Split(content), n)
    IN  {m \in Headings(headingTree) :
           headingTree[m].line \in n.line..(end - 1)}
        = Subtree(headingTree, j)

----------------------------------------------------------------------------
(* C6 .. C8: insertChild, lookup misses *)

RemoveAt(lines, i) == WithoutLines(lines, i, i + 1)

Separators == { <<>>, <<NL>> }

C7_InsertedLine ==
  Added =>
    LET p == EditedNode
        lines == BeforeLines
        b == IF last.id = RootId THEN Len(lines) ELSE ScanEnd(lines, p)
        at == InsertedLine(lines, b)
        L == Min2(p.level + 1, 6)
    IN  /\ L \in 1..6
        /\ at < Len(Split(content))
        /\ Split(content)[at + 1] = Repeat(HASH, L) \o <<" ">> \o last.text

\* a child added to a heading of level 6
C7_Witness == Added /\ EditedNode.level = 6

\* C8: insertChild with an id that resolves to no node, and deleteSubtree
\* with such an id or with the root's id, change neither buffer nor tree.
C8_MissIsNoOp ==
  ( /\ last.op \in {"add", "delete"}
    /\ \/ ~Resolves(last.tree, last.id)
       \/ last.op = "delete" /\ last.id = RootId )
  => content = last.content /\ headingTree = last.tree

\* deleteSubtree called with the root's id on a buffer that has headings
C8_Witness ==
  /\ last.op = "delete"
  /\ last.id = RootId
  /\ Len(last.tree) > 2

\* an add called with an id no node of the tree has
C8_WitnessAddMiss ==
  /\ last.op = "add"
  /\ ~Resolves(last.tree, last.id)
  /\ Len(last.tree) > 1

----------------------------------------------------------------------------
(* C9, C10: the dialog and the tree across changes of the buffer *)

\* C9 as stated: confirming a dialog that was opened for a node n either
\* leaves the buffer unchanged or applies the edit to a node with the level and
\* text of n, also when the buffer was replaced while the dialog was open.
C9_DialogEditsItsNode ==
  ( /\ last.op \in {"add", "delete"}
    /\ last.target # NoTarget
    /\ content # last.content )
  => /\ Resolves(last.tree, last.id)
     /\ EditedNode.level = last.target.level
     /\ last.target.level # 0 => EditedNode.text = last.target.text

\* C10: the tree handed to the graph is the parse of the current buffer, the
\* root's text apart, and every non-root node n of it stands for line n.line:
\* that line is n.level markers, whitespace and n.text, and n.id is
\* heading-<n.line>.
C10_TreeIsParseOfBuffer ==
  /\ [headingTree EXCEPT ![1].text = RootText] = parseMarkdownHeadings(content)
  /\ \A j \in Headings(headingTree) :
       LET n == headingTree[j]
           lines == Split(content)
       IN  /\ n.line \in 0..(Len(lines) - 1)
           /\ n.id = HeadingId(n.line)
           /\ n.level \in 1..6
           /\ LET line == lines[n.line + 1]
              IN  /\ Len(line) > n.level
                  /\ \A i \in 1..n.level : line[i] = HASH
                  /\ line[n.level + 1] # HASH
                  /\ \E k \in 1..(Len(line) - n.level) :
                       /\ \A i \in (n.level + 1)..(n.level + k) :
                            line[i] \in WhiteSpace
                       /\ SubSeq(line, n.level + k + 1, Len(line)) = n.text

\* after a delete confirmed in the dialog took one of three headings out of a
\* buffer that an earlier add had grown to three lines
C10_Witness ==
  /\ last.op = "delete"
  /\ content # last.content
  /\ Len(last.tree) = 4
  /\ Len(headingTree) = 3
  /\ headingTree[3].line = 1

----------------------------------------------------------------------------
(* C11 .. C16: the parser *)

\* the nodes that have j among their children, once for every occurrence
ParentsOf(tree, j) ==
  {<<q, i>> \in (1..Len(tree)) \X (1..Len(tree)) :
     i <= Len(tree[q].children) /\ tree[q].children[i] = j}

\* C11: the parsed tree is well formed: one root (id "root", level 0, no
\* heading id), every other node the child of exactly one node, with a level in
\* 1..6 strictly greater than its parent's, and every node's children in
\* ascending order of line.
C11_WellFormed ==
  /\ headingTree[1].id = RootId
  /\ headingTree[1].level = 0
  /\ ParentsOf(headingTree, 1) = {}
  /\ \A j \in Headings(headingTree) :
       /\ headingTree[j].id # RootId
       /\ headingTree[j].level \in 1..6
       /\ Cardinality(ParentsOf(headingTree, j)) = 1
       /\ headingTree[j].level > headingTree[ParentIn(headingTree, j)].level
  /\ \A q \in 1..Len(headingTree) :
       \A i \in 1..(Len(headingTree[q].children) - 1) :
         headingTree[headingTree[q].children[i]].line
           < headingTree[headingTree[q].children[i + 1]].line

\* two headings of one level in a row, under a heading of a smaller level
C11_Witness ==
  /\ Len(headingTree) = 4
  /\ headingTree[3].level = headingTree[4].level
  /\ headingTree[2].children = <<3, 4>>

\* C12: the parent of a heading node is the nearest preceding heading of a
\* strictly smaller level, the root when there is none; headings of equal level
\* that follow each other are siblings.
C12_NearestShallowerParent ==
  \A j \in Headings(headingTree) :
    LET n == headingTree[j]
        above == {i \in Headings(headingTree) :
                    /\ headingTree[i].line < n.line
                    /\ headingTree[i].level < n.level}
        nearest == IF above = {} THEN 1
                   ELSE CHOOSE i \in above :
                          \A k \in above : headingTree[k].line <= headingTree[i].line
    IN  ParentIn(headingTree, j) = nearest

\* a level-1 heading after a level-2 heading and its level-3 child: its parent
\* is the root, two levels of the stack popped
C12_Witness ==
  /\ Len(headingTree) = 4
  /\ headingTree[2].level = 2
  /\ headingTree[3].level = 3
  /\ headingTree[4].level = 1
  /\ headingTree[1].children = <<2, 4>>

\* a heading line as the specification defines it: 1 to 6 markers, whitespace,
\* and text that is not empty once trimmed
RestOf(line) == SubSeq(line, LeadingHashes(line) + 1, Len(line))

ValidHeadingLine(line) ==
  /\ LeadingHashes(line) \in 1..6
  /\ Len(RestOf(line)) > 0
  /\ RestOf(line)[1] \in WhiteSpace
  /\ Len(Trim(RestOf(line))) > 0

\* C13 as stated: for a buffer of valid heading lines only, the pre-order walk
\* of the parsed tree, the root left out, visits one node per line in line
\* order, and its (level, text) pairs are those of the lines.
C13_WalkIsTheBuffer ==
  LET lines == Split(content)
      walk == Tail(flattenGraph(headingTree))
  IN  (\A i \in 1..Len(lines) : ValidHeadingLine(lines[i]))
      => /\ Len(walk) = Len(lines)
         /\ \A i \in 1..Len(walk) :
              /\ headingTree[walk[i]].line = i - 1
              /\ headingTree[walk[i]].level = LeadingHashes(lines[i])
              /\ headingTree[walk[i]].text = Trim(RestOf(lines[i]))

\* C14 as stated: a line has a node exactly if it is 1 to 6 markers, at least
\* one whitespace character and text that is not empty once trimmed.
C14_NodeIffHeadingLine ==
  LET lines == Split(content)
  IN  \A i \in 1..Len(lines) :
        (NodeAtLine(headingTree, i - 1) # 0) <=> ValidHeadingLine(lines[i])

\* C15 as stated: a node's level is the number of leading markers of its line
\* and its text the rest of the line, trimmed at both ends.
C15_LevelAndTrimmedText ==
  \A j \in Headings(headingTree) :
    LET line == Split(content)[headingTree[j].line + 1]
    IN  /\ headingTree[j].level = LeadingHashes(line)
        /\ headingTree[j].text = Trim(RestOf(line))

\* the headings of a tree written out again in document order: markers, one
\* space and the text for each
Reserialized(tree) ==
  LET walk == Tail(flattenGraph(tree))
  IN  Join([i \in 1..Len(walk) |->
              Repeat(HASH, tree[walk[i]].level) \o <<" ">> \o tree[walk[i]].text])

\* C16: parsing the headings of parse(b) written out again gives a tree of the
\* shape, levels and texts of parse(b).
C16_ReparseIsIdempotent ==
  Shape(parseMarkdownHeadings(Reserialized(headingTree)))
    = Shape([headingTree EXCEPT ![1].text = RootText])

\* a buffer with a body line and a line of markers and blanks between two
\* headings, the second with a blank after its text
C16_Witness ==
  /\ Len(headingTree) = 3
  /\ headingTree[2].line = 0
  /\ headingTree[3].line = 2
  /\ Len(headingTree[3].text) = 2
  /\ Reserialized(headingTree) # content

----------------------------------------------------------------------------
(* C17 *)

\* C17: the inserted heading is a line of its own, directly after the line that
\* was in front of the insertion point (the single empty line of an empty
\* buffer included) and directly in front of the line that was at the insertion
\* point, or of the closing separator when it was put at the end: one separator
\* on either side of it, no empty line made and none taken away.
C17_OneSeparatorEachSide ==
  Added =>
    LET p == EditedNode
        lines == BeforeLines
        b == IF last.id = RootId THEN Len(lines) ELSE ScanEnd(lines, p)
        at == InsertedLine(lines, b)
        after == Split(content)
        rest == IF b < Len(lines) THEN SubSeq(lines, at + 1, Len(lines))
                ELSE << <<>> >>
    IN  /\ at < Len(after)
        /\ after[at + 1] # <<>>
        /\ after = SubSeq(lines, 1, at) \o <<after[at + 1]>> \o rest

\* a child inserted in front of a later heading, an empty line in front of the
\* insertion point
C17_Witness ==
  /\ Added
  /\ last.id # RootId
  /\ ScanEnd(BeforeLines, EditedNode) < Len(BeforeLines)
  /\ BeforeLines[ScanEnd(BeforeLines, EditedNode)] = <<>>

\* a heading added to the empty buffer
C17_WitnessEmpty == Added /\ last.content = <<>>

\* a heading added at the end of a buffer that ends without a separator
C17_WitnessNoTrailing ==
  Added /\ last.content # <<>> /\ ~EndsWithNL(last.content) /\ last.id = RootId

----------------------------------------------------------------------------
(* C18 .. C20: the graph's clicks, menu and dialog *)

\* C18 as stated: a click on a node n of the graph resolves a node of n's level
\* and text, whatever line n is on; the navigation asked for is to the heading
\* of that level and text, and there is none when no heading matches; the
\* buffer is as it was.
C18_ClickResolvesTheNode ==
  last.op = "click" =>
    /\ last.node # 0
    /\ headingTree[last.node].level = last.target.level
    /\ headingTree[last.node].text = last.target.text
    /\ last.nav.found =>
         /\ last.nav.level = last.target.level
         /\ last.nav.text = last.target.text

\* C19 as stated: the menu is closed, or open with a target or none; it is not
\* on screen together with the dialog an action of it opened, and Escape
\* pressed while it is open leaves it closed.
C19_MenuCloses ==
  /\ contextMenu.visible \/ contextMenu = MenuClosed
  /\ contextMenu.nodeId \in Ids \cup {NoId}
  /\ modal.isOpen => ~contextMenu.visible
  /\ (last.key = "Escape" /\ last.was.menu) => ~contextMenu.visible

\* C20 as stated: after Enter or Escape pressed while the dialog is pending,
\* whichever kind it is, the dialog is closed; Escape ran no mutation and Enter
\* one at most.
C20_KeysSettleTheDialog ==
  (last.key # "none" /\ last.was.dialog # "none") =>
    /\ ~modal.isOpen
    /\ last.key = "Escape" => last.op \notin {"add", "delete"}
    /\ last.key = "Enter" => last.op \in {"add", "delete", "none"}

----------------------------------------------------------------------------
(* C21, C22: what the menu's actions call *)

\* C21: the dialog of a menu opened on a node is for that node's id; the
\* confirmation is never for the root, the menu having no delete for it; a
\* confirmed add calls onNodeAdd and a confirmed delete onNodeDelete with the
\* id the menu was opened on, and onNodeDelete is never called on the root.
C21_MenuActions ==
  /\ modal.isOpen => modal.nodeId \in Ids
  /\ (modal.isOpen /\ target # NoTarget) => modal.nodeId = target.id
  /\ (modal.isOpen /\ modal.type = "confirm") => modal.nodeId # RootId
  /\ last.op = "delete" => last.id # RootId
  /\ (last.op \in {"add", "delete"} /\ last.target # NoTarget)
       => last.id = last.target.id

\* a confirmed delete of the node the menu was opened on
C21_Witness ==
  /\ last.op = "delete"
  /\ last.target.id = last.id
  /\ content # last.content

\* a confirmed add under a heading the menu was opened on
C21_WitnessAdd ==
  /\ last.op = "add"
  /\ last.id # RootId
  /\ last.target.id = last.id
  /\ content # last.content

\* C22: the menu of a right-click on the background has no target, and the one
\* dialog it opens is the text input for "root"; confirming that dialog with a
\* text that is not blank calls onNodeAdd("root", text) once, the text trimmed,
\* which puts a level-1 heading of that text at the end of the buffer, as the
\* root's last child.
C22_BackgroundAddsTopic ==
  /\ [][(contextMenu.visible /\ contextMenu.nodeId = NoId /\ modal'.isOpen)
          => modal' = [isOpen |-> TRUE, type |-> "input", nodeId |-> RootId,
                       title |-> "topic"]]_vars
  /\ [](last.from = "topic" =>
          /\ last.op = "add"
          /\ last.id = RootId
          /\ last.text = Trim(last.input)
          /\ \E sep \in Separators :
               content = last.content \o sep \o H(1, last.text) \o <<NL>>
          /\ LineCount(content) \in {LineCount(last.content) + 1,
                                     LineCount(last.content) + 2}
          /\ LET n == headingTree[Len(headingTree)]
             IN  /\ n.level = 1
                 /\ n.text = last.text
                 /\ ParentIn(headingTree, Len(headingTree)) = 1)

\* a topic added from the background menu to a buffer with a heading
C22_Witness ==
  /\ last.from = "topic"
  /\ last.op = "add"
  /\ Len(last.tree) > 1
  /\ Len(headingTree) = Len(last.tree) + 1

----------------------------------------------------------------------------
(* C23, C24, C30: the simulation and the drag gestures *)

Running(s) == {i \in 1..Len(s.sims) : ~s.sims[i].stopped}

\* the pointers that hold a gesture
Dragging(s) == {p \in Pointers : s.gestures[p] # NoGesture}

\* the step just taken made a new tree
TreeJustChanged == last.op \in {"replace", "title", "restore"} \/ (last.op \in {"add", "delete"} /\ content # last.content)

\* C23: at most one simulation runs: the one of the graph on screen, none when
\* the graph is removed; after a change of the tree the simulation is a new
\* one over the new tree's node objects, none of them pinned and no gesture of
\* its own, whatever drag was in progress.
C23_OneSimulation ==
  /\ Cardinality(Running(simulation)) <= 1
  /\ simulation.mounted => Running(simulation) = {Len(simulation.sims)}
  /\ ~simulation.mounted => Running(simulation) = {}
  /\ (TreeJustChanged /\ simulation.mounted) =>
       LET sim == simulation.sims[Len(simulation.sims)]
       IN  /\ sim.objs = Len(simulation.pinned)
           /\ simulation.pinned[sim.objs] = {}
           /\ sim.active = 0
           /\ sim.alphaTarget = 0
           /\ \A p \in Pointers : simulation.gestures[p].sim # Len(simulation.sims)

\* the tree changed while a node was being dragged: the gesture is left with
\* a halted simulation
C23_Witness ==
  /\ TreeJustChanged
  /\ simulation.mounted
  /\ Len(simulation.sims) = 2
  /\ \E p \in Pointers :
       /\ simulation.gestures[p].sim = 1
       /\ simulation.gestures[p].node \in simulation.pinned[simulation.sims[1].objs]

\* the gestures held on the node d of the generation o of node objects
GesturesOn(s, o, d) ==
  {p \in Dragging(s) :
     s.sims[s.gestures[p].sim].objs = o /\ s.gestures[p].node = d}

\* C24 as stated: a node is pinned exactly while a drag gesture on it is in
\* progress.
C24_PinnedWhileDragged ==
  \A o \in 1..Len(simulation.pinned) : \A d \in Ids :
    d \in simulation.pinned[o] <=> GesturesOn(simulation, o, d) # {}

\* C30: the alpha target of a simulation is raised exactly while its drag
\* behaviour holds a gesture: from the first start to the last end, not reset
\* by the end of one gesture of two.
C30_AlphaTargetWhileDragged ==
  \A i \in 1..Len(simulation.sims) :
    LET sim == simulation.sims[i]
        held == {p \in Dragging(simulation) : simulation.gestures[p].sim = i}
    IN  /\ sim.active = Cardinality(held)
        /\ sim.alphaTarget = IF held = {} THEN 0 ELSE AlphaRaised

\* one of two gestures on the simulation on screen has ended
C30_Witness ==
  /\ last.op = "dragend"
  /\ simulation.mounted
  /\ simulation.sims[Len(simulation.sims)].active = 1
  /\ simulation.sims[Len(simulation.sims)].alphaTarget = AlphaRaised

----------------------------------------------------------------------------
(* C25: flattenGraph *)

\* the position of the node k in the sequence of nodes emitted
PositionIn(nodes, k) == CHOOSE i \in 1..Len(nodes) : nodes[i] = k

\* the ids reached from the ids of S along the links
RECURSIVE Reached(_, _)
Reached(links, S) ==
  LET more == S \cup {links[i].target : i \in {j \in 1..Len(links) : links[j].source \in S}}
  IN  IF more = S THEN S ELSE Reached(links, more)

\* C25: flattenGraph emits every node of the tree once, the root first and
\* every subtree as one run that starts with its top node and keeps the
\* children's order, and one link for every parent and child; the ids are
\* pairwise distinct, the ends of a link each the id of one emitted node, every
\* node but the root the target of one link and the root of none, so there is
\* one link less than nodes and every node is reached from the root.
C25_FlattenIsSpanningTree ==
  LET tree == headingTree
      nodes == flattenGraph(tree)
      links == flattenLinks(tree)
      idOf(i) == tree[nodes[i]].id
      withId(id) == {i \in 1..Len(nodes) : idOf(i) = id}
  IN  /\ Len(nodes) = Len(tree)
      /\ {nodes[i] : i \in 1..Len(nodes)} = 1..Len(tree)
      /\ nodes[1] = 1
      /\ \A k \in 1..Len(tree) :
           LET at == PositionIn(nodes, k)
               size == Cardinality(Subtree(tree, k))
           IN  /\ {nodes[i] : i \in at..(at + size - 1)} = Subtree(tree, k)
               /\ \A i \in 1..(Len(tree[k].children) - 1) :
                    PositionIn(nodes, tree[k].children[i])
                      < PositionIn(nodes, tree[k].children[i + 1])
      /\ \A i, j \in 1..Len(nodes) : idOf(i) = idOf(j) => i = j
      /\ Len(links) = Len(nodes) - 1
      /\ \A l \in 1..Len(links) :
           /\ Cardinality(withId(links[l].source)) = 1
           /\ Cardinality(withId(links[l].target)) = 1
           /\ \E k \in 1..Len(tree) :
                /\ tree[k].id = links[l].source
                /\ \E c \in 1..Len(tree[k].children) :
                     tree[tree[k].children[c]].id = links[l].target
      /\ \A i \in 1..Len(nodes) :
           Cardinality({l \in 1..Len(links) : links[l].target = idOf(i)})
             = IF nodes[i] = 1 THEN 0 ELSE 1
      /\ Reached(links, {tree[1].id}) = {idOf(i) : i \in 1..Len(nodes)}

\* a tree of three levels with a sibling after a nested heading
C25_Witness ==
  /\ Len(headingTree) = 4
  /\ headingTree[2].children = <<3>>
  /\ headingTree[1].children = <<2, 4>>
  /\ Len(flattenLinks(headingTree)) = 3

----------------------------------------------------------------------------
(* SpecRound: handleNodeAdd, then handleNodeDelete of the heading it put in *)

\* the line, counted from 0, of the heading the add just made
NewHeadingLineIndex ==
  LET lines == BeforeLines
      b == IF last.id = RootId THEN Len(lines) ELSE ScanEnd(lines, EditedNode)
  IN  InsertedLine(lines, b)

\* handleNodeDelete with the root for the node: a variant C26 must tell apart
DeletedNodeParent(tree, line) == tree[ParentIn(tree, NodeAtLine(tree, line))].id

\* the id of the graph node of the heading on a line
DeletedNode(tree, line) == tree[NodeAtLine(tree, line)].id

\* onNodeDelete called on the node of the heading the add just made; the
\* record keeps the buffer and tree the add started from
DeleteInserted ==
  /\ Added
  /\ NodeAtLine(headingTree, NewHeadingLineIndex) # 0
  /\ LET id == DeletedNode(headingTree, NewHeadingLineIndex)
     IN  /\ content' = handleNodeDelete(content, headingTree, id)
         /\ headingTree' = HeadingTreeOf(content', title)
         /\ last' = [NoEdit EXCEPT !.op = "roundtrip", !.id = id,
                                   !.text = last.text,
                                   !.content = last.content,
                                   !.tree = last.tree]
         /\ simulation' = Rendered(content', title)
  /\ UNCHANGED <<title, readOnly, graphVars>>

NextRound == NodeAdd \/ DeleteInserted

SpecRound == InitEdit /\ [][NextRound]_vars

\* a sequence of lines without the empty lines at its end
RECURSIVE DropTrailingEmpty(_)
DropTrailingEmpty(lines) ==
  IF Len(lines) > 0 /\ lines[Len(lines)] = <<>>
  THEN DropTrailingEmpty(SubSeq(lines, 1, Len(lines) - 1))
  ELSE lines

\* C26: after insertChild and deleteSubtree of the heading it made, the
\* buffer's lines are the original lines but for empty lines at the end, and
\* the tree is the original tree.
C26_RoundTrip ==
  last.op = "roundtrip" =>
    /\ DropTrailingEmpty(Split(content)) = DropTrailingEmpty(Split(last.content))
    /\ headingTree = last.tree

\* a child put in front of a later heading and taken out again
C26_Witness ==
  /\ last.op = "roundtrip"
  /\ Len(last.tree) = 3
  /\ last.tree[1].children = <<2, 3>>
  /\ last.id = HeadingId(1)

----------------------------------------------------------------------------
(* C27, C28: what the graph's gestures change *)

Blank(text) == Len(Trim(text)) = 0

\* C27: a step of the graph changes the buffer only when it confirms the
\* dialog: the text input with an input that is not blank, or the
\* confirmation; menu, cancel, keys, clicks and drags leave the buffer as it
\* is, and so does a confirmed blank input. The text onNodeAdd is called with
\* is the input trimmed, and not empty.
C27_OnlyConfirmChangesBuffer ==
  /\ [][content' # content =>
          /\ modal.isOpen
          /\ ~modal'.isOpen
          /\ modal.type = "input" =>
               /\ ~Blank(inputValue)
               /\ last'.op = "add"
               /\ content' = handleNodeAdd(content, headingTree, modal.nodeId,
                                           Trim(inputValue))
          /\ modal.type = "confirm" =>
               /\ last'.op = "delete"
               /\ content' = handleNodeDelete(content, headingTree, modal.nodeId)]_vars
  /\ [](last.op = "add" =>
          /\ last.text = Trim(last.input)
          /\ Len(last.text) > 0
          /\ last.text[1] \notin WhiteSpace
          /\ last.text[Len(last.text)] \notin WhiteSpace)

\* a heading added by the dialog, its input typed with blanks around the text,
\* while a node is held by the mouse
C27_Witness ==
  /\ last.op = "add"
  /\ content # last.content
  /\ last.input # last.text
  /\ Dragging(simulation) # {}

\* C28: in read-only mode the menu is never open and the dialog never, and
\* neither onNodeAdd nor onNodeDelete is called: the buffer stays what it was.
C28_ReadOnlyNeverEdits ==
  readOnly =>
    /\ ~contextMenu.visible
    /\ ~modal.isOpen
    /\ last.op \notin {"add", "delete"}
    /\ content = H(1, <<"a">>)

\* read-only, a node that was clicked being dragged
C28_Witness ==
  /\ readOnly
  /\ last.op = "drag"
  /\ Dragging(simulation) # {}
  /\ simulation.sims[Len(simulation.sims)].alphaTarget = AlphaRaised

\* read-only, a node clicked
C28_WitnessClick == readOnly /\ last.op = "click" /\ last.id # RootId

----------------------------------------------------------------------------
(* C29 *)

\* C29: deleteSubtree of a node that resolves and is not the root leaves a
\* buffer whose tree has fewer heading nodes.
C29_DeleteReducesHeadings ==
  Deleted => Len(headingTree) < Len(last.tree)

\* a heading deleted with a heading below it, other headings staying
C29_Witness ==
  /\ Deleted
  /\ Len(last.tree) = 4
  /\ Len(headingTree) = 2

====
